---- MODULE Spec2Model ----
(***************************************************************************)
(* Model of the POST /contact handler of src/server.js.                    *)
(*                                                                         *)
(* The file holds two versions of the handler: the first (lines 18-81)     *)
(* walks three SMTP profiles with a plain await; the second (lines         *)
(* 109-275) tries the Resend API first, then three SMTP profiles each      *)
(* raced against a 15 s timer, then Resend once more.  `variant` selects   *)
(* the handler.  One request is followed from arrival to response; the     *)
(* send promises and the timers it leaves behind keep living after the     *)
(* handler moved on, because nothing cancels them.                         *)
(*                                                                         *)
(* The mail libraries are opaque: a send promise may fulfil, reject with   *)
(* some reason, or stay pending for ever.                                  *)
(***************************************************************************)
EXTENDS Integers, Sequences, FiniteSets, TLC

VARIABLES
    variant,              \* 1: handler of lines 18-81, 2: handler of lines 109-275
    apiKey,               \* process.env.RESEND_API_KEY is set
    emailCreds,           \* process.env.EMAIL_USER and EMAIL_PASS are set
    hasCreateTransporter, \* nodemailer.createTransporter is a function (line 64)
    body,                 \* req.body: field name -> value
    pc,                   \* "idle" | "awaiting" | "done"
    attempts,             \* send invocations, in the order they were made
    failures,             \* failures logged by the catch blocks: <<transport, reason>>
    responses             \* responses written to res, in order

vars == <<variant, apiKey, emailCreds, hasCreateTransporter, body, pc,
          attempts, failures, responses>>

env == <<variant, apiKey, emailCreds, hasCreateTransporter, body>>

----------------------------------------------------------------------------
(* Bounds *)

\* number of distinct error reasons a transport may reject with
MaxReason == 2

----------------------------------------------------------------------------
(* Request body and validation *)

Fields == {"name", "email", "phone", "businessType", "message"}

Undefined == "<undefined>"

\* a missing field, an empty string, a non-empty string
FieldValues == {Undefined, "", "hi"}

\* JavaScript truthiness of a field value
Truthy(v) == v # Undefined /\ v # ""

ValidDropMessage(b) ==
    Truthy(b["name"]) /\ Truthy(b["email"]) /\ Truthy(b["phone"])
        /\ Truthy(b["businessType"])

\* the negation of the guard `!name || !email || !phone || !businessType || !message`
Valid(b) ==
    Truthy(b["name"]) /\ Truthy(b["email"]) /\ Truthy(b["phone"])
        /\ Truthy(b["businessType"]) /\ Truthy(b["message"])

----------------------------------------------------------------------------
(* Transports *)

Resend == "resend"
Ssl465 == "smtp.gmail.com:465/ssl"
StartTls587 == "smtp.gmail.com:587/starttls"
GmailService == "service:gmail"

smtpConfigsSwapped(v) ==
    IF v = 1 THEN <<StartTls587, Ssl465, GmailService>>
             ELSE <<StartTls587, GmailService, Ssl465>>

\* the smtpConfigs array literal of each handler
smtpConfigs(v) ==
    IF v = 1 THEN <<Ssl465, StartTls587, GmailService>>
             ELSE <<GmailService, StartTls587, Ssl465>>

\* const resend = process.env.RESEND_API_KEY ? new Resend(...) : null
\* (the first handler has no Resend client at all)
resend == variant = 2 /\ apiKey

ErrMsg(n) == "error-" \o ToString(n)
Reasons == {ErrMsg(n) : n \in 1..MaxReason}
TimeoutMsg == "Timeout after 15 seconds"
TypeErrorMsg == "nodemailer.createTransporter is not a function"

----------------------------------------------------------------------------
(* Response bodies *)

Bad400 == [status |-> 400, error |-> "Missing required fields"]

ResendOkBody ==
    [status |-> 200, success |-> TRUE,
     message |-> "Email sent successfully via Resend!", provider |-> Resend]

SmtpOkBodyOffByOne(v, i) ==
    IF v = 1 THEN [status |-> 200, success |-> TRUE]
             ELSE [status |-> 200, success |-> TRUE,
                   message |-> "Email sent successfully!", configUsed |-> i]

\* res.json of the SMTP success branch; i is the 0-based loop index
SmtpOkBody(v, i) ==
    IF v = 1 THEN [status |-> 200, success |-> TRUE]
             ELSE [status |-> 200, success |-> TRUE,
                   message |-> "Email sent successfully!", configUsed |-> i + 1]

\* res.status(500).json of the exhaustion branch; msg is err.message of the
\* last SMTP failure
Fail500(v, hasResend, msg) ==
    IF v = 1
    THEN [status |-> 500, error |-> "Failed to send email",
          detail |-> "All SMTP configurations failed. Consider using a cloud email service.",
          lastError |-> msg]
    ELSE [status |-> 500, success |-> FALSE, error |-> "Failed to send email",
          detail |-> IF hasResend
                     THEN "Both SMTP and Resend failed on cloud hosting."
                     ELSE "SMTP failed and no Resend API key configured.",
          suggestion |-> IF hasResend
                         THEN "Try a different cloud email service or check your credentials."
                         ELSE "Quick fix: Get a free Resend API key from resend.com and add RESEND_API_KEY to your environment variables."]

----------------------------------------------------------------------------
(* Attempts *)

\* resend.emails.send(...) awaited directly: no timer
NewResend(phase) ==
    [t |-> Resend, phase |-> phase, i |-> 0, send |-> "pending",
     timer |-> "none", outcome |-> "waiting", reason |-> ""]

\* transporter.sendMail(mailOptions); the second handler races it against
\* setTimeout(..., 15000), the first awaits it directly
NewSmtp(v, i) ==
    [t |-> smtpConfigs(v)[i + 1], phase |-> "smtp", i |-> i, send |-> "pending",
     timer |-> IF v = 2 THEN "armed" ELSE "none",
     outcome |-> "waiting", reason |-> ""]

AwaitedAnySettlement(k) == k \in DOMAIN attempts

\* the handler is suspended on attempt k: its await (or Promise.race) has
\* not settled yet.  A promise settles once; later settlements are ignored.
Awaited(k) == k \in DOMAIN attempts /\ attempts[k].outcome = "waiting"

----------------------------------------------------------------------------
(* Continuations of the handler after an await settles.  `base` is the     *)
(* attempt list with attempt k's settlement already recorded.              *)

Last(v) == Len(smtpConfigs(v)) - 1

ResolvedNoReturn(base, k) ==
    LET a == base[k] IN
    /\ responses' = Append(responses,
                           IF a.t = Resend THEN ResendOkBody
                                           ELSE SmtpOkBody(variant, a.i))
    /\ IF a.phase = "smtp" /\ a.i < Last(variant)
       THEN /\ attempts' = Append(base, NewSmtp(variant, a.i + 1))
            /\ pc' = "awaiting"
       ELSE /\ attempts' = base
            /\ pc' = "done"
    /\ UNCHANGED failures

\* the awaited send fulfilled: log, `return res.json(...)`
Resolved(base, k) ==
    LET a == base[k] IN
    /\ responses' = Append(responses,
                           IF a.t = Resend THEN ResendOkBody
                                           ELSE SmtpOkBody(variant, a.i))
    /\ attempts' = base
    /\ pc' = "done"
    /\ UNCHANGED failures

\* the awaited send rejected, or its timer won the race: the catch block
Caught(base, k, msg) ==
    LET a == base[k] IN
    /\ failures' = Append(failures, <<a.t, msg>>)
    /\ CASE a.phase = "first" ->
              \* `Resend failed, falling back to SMTP`: enter the loop at i = 0
              /\ attempts' = Append(base, NewSmtp(variant, 0))
              /\ pc' = "awaiting"
              /\ UNCHANGED responses
         [] a.phase = "smtp" /\ a.i < Last(variant) ->
              \* not the last profile: next iteration of the for loop
              /\ attempts' = Append(base, NewSmtp(variant, a.i + 1))
              /\ pc' = "awaiting"
              /\ UNCHANGED responses
         [] a.phase = "smtp" /\ a.i = Last(variant) /\ resend ->
              \* last profile failed and a Resend client exists: fallback send
              /\ attempts' = Append(base, NewResend("fallback"))
              /\ pc' = "awaiting"
              /\ UNCHANGED responses
         [] a.phase = "smtp" /\ a.i = Last(variant) /\ ~resend ->
              /\ attempts' = base
              /\ responses' = Append(responses, Fail500(variant, resend, msg))
              /\ pc' = "done"
         [] a.phase = "fallback" ->
              \* `Resend fallback also failed`: fall through to the 500;
              \* the SMTP error of the enclosing catch is not in the body
              /\ attempts' = base
              /\ responses' = Append(responses, Fail500(variant, resend, ""))
              /\ pc' = "done"

----------------------------------------------------------------------------
(* Initial states *)

Init ==
    /\ variant \in {1, 2}
    /\ apiKey \in BOOLEAN
    /\ emailCreds \in BOOLEAN
    /\ hasCreateTransporter \in BOOLEAN
    /\ (variant = 2 => hasCreateTransporter = FALSE)
    /\ body \in [Fields -> FieldValues]
    /\ pc = "idle"
    /\ attempts = <<>>
    /\ failures = <<>>
    /\ responses = <<>>

----------------------------------------------------------------------------
(* Actions *)

\* a request with a falsy field: 400, return
HandleInvalid ==
    /\ pc = "idle"
    /\ ~Valid(body)
    /\ responses' = Append(responses, Bad400)
    /\ pc' = "done"
    /\ UNCHANGED <<env, attempts, failures>>

\* a valid request, up to the first await
HandleValid ==
    /\ pc = "idle"
    /\ Valid(body)
    /\ ~(variant = 1 /\ ~hasCreateTransporter)
    /\ attempts' = IF resend THEN <<NewResend("first")>>
                             ELSE <<NewSmtp(variant, 0)>>
    /\ pc' = "awaiting"
    /\ UNCHANGED <<env, failures, responses>>

\* a valid request to the first handler when nodemailer.createTransporter is
\* not a function: the call throws inside the try in every iteration, no
\* send is made, and the last catch answers 500 before the handler yields
HandleNoFactory ==
    /\ pc = "idle"
    /\ Valid(body)
    /\ variant = 1 /\ ~hasCreateTransporter
    /\ failures' = [n \in 1..Len(smtpConfigs(1)) |-> <<smtpConfigs(1)[n], TypeErrorMsg>>]
    /\ responses' = Append(responses, Fail500(1, resend, TypeErrorMsg))
    /\ pc' = "done"
    /\ UNCHANGED <<env, attempts>>

\* the send promise of attempt k fulfils
SendFulfilled(k) ==
    /\ k \in DOMAIN attempts
    /\ attempts[k].send = "pending"
    /\ IF Awaited(k)
       THEN Resolved([attempts EXCEPT ![k].send = "resolved", ![k].outcome = "ok"], k)
       ELSE /\ attempts' = [attempts EXCEPT ![k].send = "resolved"]
            /\ UNCHANGED <<pc, failures, responses>>
    /\ UNCHANGED env

\* the send promise of attempt k rejects with err.message = msg
SendRejected(k, msg) ==
    /\ k \in DOMAIN attempts
    /\ attempts[k].send = "pending"
    /\ IF Awaited(k)
       THEN Caught([attempts EXCEPT ![k].send = "rejected", ![k].outcome = "error",
                                    ![k].reason = msg], k, msg)
       ELSE /\ attempts' = [attempts EXCEPT ![k].send = "rejected"]
            /\ UNCHANGED <<pc, failures, responses>>
    /\ UNCHANGED env

\* the 15 s timer of attempt k fires and rejects timeoutPromise
TimerFired(k) ==
    /\ k \in DOMAIN attempts
    /\ attempts[k].timer = "armed"
    /\ IF Awaited(k)
       THEN Caught([attempts EXCEPT ![k].timer = "fired", ![k].outcome = "timeout",
                                    ![k].reason = TimeoutMsg], k, TimeoutMsg)
       ELSE /\ attempts' = [attempts EXCEPT ![k].timer = "fired"]
            /\ UNCHANGED <<pc, failures, responses>>
    /\ UNCHANGED env

Fulfil == \E k \in DOMAIN attempts : SendFulfilled(k)

Reject == \E k \in DOMAIN attempts, msg \in Reasons : SendRejected(k, msg)

Timer == \E k \in DOMAIN attempts : TimerFired(k)

Next ==
    \/ HandleInvalid
    \/ HandleValid
    \/ HandleNoFactory
    \/ Fulfil
    \/ Reject
    \/ Timer

Spec == Init /\ [][Next]_vars

\* The event loop runs the handler once the request arrived and fires every
\* armed timer; nothing makes a pending send settle.
FairSpec ==
    /\ Spec
    /\ WF_vars(HandleInvalid)
    /\ WF_vars(HandleValid)
    /\ WF_vars(HandleNoFactory)
    /\ WF_vars(Timer)

----------------------------------------------------------------------------
(* Vocabulary of the properties *)

AllPresent == \A f \in Fields : body[f] # Undefined /\ body[f] # ""

Responded(code) == Len(responses) = 1 /\ responses[1].status = code

Transports == [n \in DOMAIN attempts |-> attempts[n].t]

IsSmtp(t) == t # Resend

IsPrefix(s, t) == Len(s) <= Len(t) /\ \A n \in 1..Len(s) : s[n] = t[n]

Failed(k) == attempts[k].outcome \in {"error", "timeout"}

\* the transports that have credentials, in the order the handler walks them
Configured ==
    (IF variant = 2 /\ apiKey THEN <<Resend>> ELSE <<>>)
        \o (IF emailCreds THEN smtpConfigs(variant) ELSE <<>>)

----------------------------------------------------------------------------
(* C1: a submission with a missing, empty or falsy field is answered 400   *)
(* 'Missing required fields', and no transport is attempted for it.        *)
C1_InvalidRejected ==
    (~AllPresent) =>
        /\ attempts = <<>>
        /\ failures = <<>>
        /\ pc \in {"idle", "done"}
        /\ (pc = "done" =>
               responses = <<[status |-> 400, error |-> "Missing required fields"]>>)

C1_Witness ==
    /\ pc = "done"
    /\ body["message"] = ""
    /\ \A f \in Fields \ {"message"} : body[f] = "hi"
    /\ Responded(400)

(* C2: for a submission with all five fields present, an attempt that      *)
(* succeeds is answered 200 at once and is the last attempt of the request.*)
C2_FirstSuccessWins ==
    AllPresent =>
        \A k \in DOMAIN attempts :
            attempts[k].outcome = "ok" =>
                /\ k = Len(attempts)
                /\ pc = "done"
                /\ Responded(200)

C2_Witness ==
    /\ pc = "done"
    /\ Len(attempts) = 3
    /\ attempts[2].outcome = "timeout"
    /\ attempts[3].outcome = "ok"
    /\ attempts[3].i < Last(variant)
    /\ Responded(200)

(* C3: when every configured transport failed the answer is 500 and the    *)
(* recorded failures are exactly the configured transports, once each, in  *)
(* configured order.  Stated for the environments in which the SMTP        *)
(* profiles have their credentials.                                        *)
C3_OneFailurePerTransport ==
    (pc = "done" /\ Responded(500) /\ emailCreds) =>
        [n \in DOMAIN failures |-> failures[n][1]] = Configured

(* C4: with no API key and no SMTP credentials a valid submission is       *)
(* answered 500 and no send is ever invoked.                               *)
C4_UnconfiguredNeverSent ==
    (AllPresent /\ ~apiKey /\ ~emailCreds) =>
        /\ attempts = <<>>
        /\ (pc = "done" => Responded(500))

(* C5: every valid submission is eventually answered, whichever sends      *)
(* never complete.  Stated for the second handler, the one that has a     *)
(* per-attempt timer.                                                      *)
C5_AlwaysAnswered == (AllPresent /\ variant = 2) ~> (Len(responses) = 1)

(* C6 as claimed: the SMTP profiles are tried in the order 465, 587,       *)
(* service default; the API transport first; each attempt only after the   *)
(* previous one failed.                                                    *)
C6_OrderAsClaimed ==
    /\ IsPrefix(SelectSeq(Transports, IsSmtp), <<Ssl465, StartTls587, GmailService>>)
    /\ ((variant = 2 /\ apiKey /\ attempts # <<>>) => attempts[1].t = Resend)
    /\ \A k \in DOMAIN attempts : k > 1 => Failed(k - 1)

(* C6 amended: the order is fixed per handler: 465, 587, service default   *)
(* in the first handler; service default, 587, 465 in the second, after    *)
(* the API transport when it has a key; each attempt only after the        *)
(* previous one failed.                                                    *)
C6_FixedOrder ==
    /\ IsPrefix(SelectSeq(Transports, IsSmtp),
                IF variant = 1 THEN <<Ssl465, StartTls587, GmailService>>
                               ELSE <<GmailService, StartTls587, Ssl465>>)
    /\ ((variant = 2 /\ apiKey /\ attempts # <<>>) => attempts[1].t = Resend)
    /\ \A k \in DOMAIN attempts : k > 1 => Failed(k - 1)

C6_Witness ==
    /\ variant = 2
    /\ apiKey
    /\ Len(attempts) = 4
    /\ attempts[4].t = Ssl465
    /\ attempts[4].outcome = "ok"

(* C7 as claimed: a 200 body has success: true and a provider field naming *)
(* the transport that delivered.                                           *)
C7_ProviderAsClaimed ==
    Responded(200) =>
        /\ responses[1].success = TRUE
        /\ "provider" \in DOMAIN responses[1]
        /\ responses[1].provider = attempts[Len(attempts)].t

(* C7 amended: a 200 body has success: true; the second handler names the  *)
(* API transport as provider: 'resend' and an SMTP profile by configUsed,  *)
(* its 1-based position; the first handler names no transport.             *)
C7_DeliveredBy ==
    Responded(200) =>
        LET r == responses[1]
            t == attempts[Len(attempts)].t
        IN  /\ r.success = TRUE
            /\ attempts[Len(attempts)].outcome = "ok"
            /\ (t = Resend =>
                   /\ "provider" \in DOMAIN r /\ r.provider = "resend"
                   /\ "configUsed" \notin DOMAIN r)
            /\ (t # Resend /\ variant = 2 =>
                   /\ "provider" \notin DOMAIN r
                   /\ "configUsed" \in DOMAIN r
                   /\ r.configUsed = (CASE t = GmailService -> 1
                                        [] t = StartTls587 -> 2
                                        [] t = Ssl465 -> 3))
            /\ (variant = 1 => DOMAIN r = {"status", "success"})

C7_Witness ==
    /\ variant = 2
    /\ Responded(200)
    /\ Len(attempts) = 3
    /\ attempts[1].t = Resend
    /\ attempts[1].outcome = "error"
    /\ attempts[3].outcome = "ok"
    /\ responses[1].configUsed = 2

(* C8: the 500 body is the same whatever the transports' error reasons     *)
(* were: it carries no error reason.                                       *)
C8_ReasonsNotExposed ==
    Responded(500) =>
        /\ "lastError" \notin DOMAIN responses[1]
        /\ \A msg \in Reasons \cup {TimeoutMsg, TypeErrorMsg} :
               responses[1] = Fail500(variant, resend, msg)

(* C9: in one request no transport is attempted twice; the fallback send   *)
(* on the API transport is made only if it was not attempted before.       *)
C9_AtMostOnce ==
    \A j, k \in DOMAIN attempts : j # k => attempts[j].t # attempts[k].t

(* C10: a request gets exactly one response once its handler completed,    *)
(* never two, and a response once sent is never changed by a send that     *)
(* settles late or by a timer that fires late.                             *)
C10_ExactlyOneResponse ==
    /\ [](Len(responses) <= 1 /\ (pc = "done" <=> Len(responses) = 1))
    /\ [][responses # <<>> => responses' = responses]_vars

C10_Witness ==
    /\ pc = "done"
    /\ Len(responses) = 1
    /\ \E j \in DOMAIN attempts :
           attempts[j].outcome = "timeout" /\ attempts[j].send # "pending"
    /\ \E k \in DOMAIN attempts :
           attempts[k].outcome = "ok" /\ attempts[k].timer = "fired"

====
